---- MODULE Spec2Model ----
(***************************************************************************)
(* Model of the configuration layer of src/packages/utils/src/monorepo.ts: *)
(*   - workspace discovery (lines 5-15),                                   *)
(*   - the webpack CLI entry point (lines 95-146),                         *)
(*   - the rollup configuration assembler `config` and the default export  *)
(*     (lines 258-595).                                                    *)
(* Strings are sequences of one-character strings, so that concatenation,  *)
(* prefix tests, path resolution and the format regular expression are     *)
(* computed character by character as the code computes them.              *)
(***************************************************************************)
EXTENDS Integers, Sequences, FiniteSets, TLC

(***************************************************************************)
(* Generic sequence and string helpers (JavaScript string primitives).     *)
(***************************************************************************)

\* String.prototype.startsWith
StartsWith(s, p) ==
    /\ Len(p) <= Len(s)
    /\ SubSeq(s, 1, Len(p)) = p

\* String.prototype.endsWith
EndsWith(s, p) ==
    /\ Len(p) <= Len(s)
    /\ SubSeq(s, Len(s) - Len(p) + 1, Len(s)) = p

\* Array.prototype.includes
Includes(seq, x) == \E i \in 1..Len(seq) : seq[i] = x

\* the elements of an array
Range(seq) == { seq[i] : i \in 1..Len(seq) }

RECURSIVE Flatten(_)
\* concatenation of a list of lists ([...a, ...b] / flatMap)
Flatten(seqs) ==
    IF seqs = <<>> THEN <<>> ELSE Head(seqs) \o Flatten(Tail(seqs))

\* Array.prototype.map
Map(seq, F(_)) == [i \in 1..Len(seq) |-> F(seq[i])]

(***************************************************************************)
(* String literals of the program.                                         *)
(***************************************************************************)
SLASH == <<"/">>
DOT == <<".">>
PACKAGE_JSON == <<"p","a","c","k","a","g","e",".","j","s","o","n">>
SRC == <<"s","r","c">>
INDEX == <<"i","n","d","e","x">>
SRC_INDEX == SRC \o SLASH \o INDEX
LIB == <<"l","i","b">>
MIN == <<".","m","i","n">>
MJS == <<"m","j","s">>
JS == <<"j","s">>
CJS == <<"c","j","s">>
ES5 == <<"e","s","5">>
ES6 == <<"e","s","6">>
ES2015 == <<"e","s","2","0","1","5">>
ESM == <<"e","s","m">>
UMD == <<"u","m","d">>
ESNEXT == <<"e","s","n","e","x","t">>
IIFE == <<"i","i","f","e">>
Digits == {"0","1","2","3","4","5","6","7","8","9"}

\* process.cwd()
CWD == <<"/","w">>

(***************************************************************************)
(* node:path, on POSIX.                                                    *)
(***************************************************************************)
IsAbsolute(p) == Len(p) > 0 /\ p[1] = "/"

RECURSIVE SplitFrom(_, _, _)
SplitFrom(s, i, cur) ==
    IF i > Len(s) THEN <<cur>>
    ELSE IF s[i] = "/" THEN <<cur>> \o SplitFrom(s, i + 1, <<>>)
    ELSE SplitFrom(s, i + 1, Append(cur, s[i]))

\* s.split('/')
Split(s) == SplitFrom(s, 1, <<>>)

RECURSIVE NormSegs(_, _)
\* drops empty and "." segments, and resolves ".." against the segments kept
NormSegs(segs, acc) ==
    IF segs = <<>> THEN acc
    ELSE LET h == Head(segs) IN
         IF h = <<>> \/ h = DOT THEN NormSegs(Tail(segs), acc)
         ELSE IF h = <<".", ".">>
              THEN NormSegs(Tail(segs),
                            IF acc = <<>> THEN acc
                            ELSE SubSeq(acc, 1, Len(acc) - 1))
              ELSE NormSegs(Tail(segs), Append(acc, h))

RECURSIVE JoinSegs(_)
JoinSegs(segs) ==
    IF segs = <<>> THEN <<>> ELSE SLASH \o Head(segs) \o JoinSegs(Tail(segs))

\* the normalized absolute path of an absolute path string
NormAbs(p) ==
    LET segs == NormSegs(Split(p), <<>>) IN
    IF segs = <<>> THEN SLASH ELSE JoinSegs(segs)

\* path.resolve(p)
Resolve1(p) == IF IsAbsolute(p) THEN NormAbs(p) ELSE NormAbs(CWD \o SLASH \o p)

\* path.resolve(base, rel): the rightmost absolute argument wins
Resolve(base, rel) ==
    IF IsAbsolute(rel) THEN NormAbs(rel)
    ELSE Resolve1(base \o SLASH \o rel)

\* the last path segment of a path
LastSeg(p) ==
    LET segs == NormSegs(Split(p), <<>>) IN
    IF segs = <<>> THEN <<>> ELSE segs[Len(segs)]

\* path.extname(p): from the last "." of the base name, unless that is its
\* first character or there is none
Extname(p) ==
    LET b == LastSeg(p)
        dots == { i \in 1..Len(b) : b[i] = "." }
    IN  IF dots = {} THEN <<>>
        ELSE LET last == CHOOSE i \in dots : \A j \in dots : j <= i IN
             IF last = 1 THEN <<>> ELSE SubSeq(b, last, Len(b))

\* path.basename(p, ext)
Basename(p, ext) ==
    LET b == LastSeg(p) IN
    IF ext # <<>> /\ b # ext /\ EndsWith(b, ext)
    THEN SubSeq(b, 1, Len(b) - Len(ext))
    ELSE b

(***************************************************************************)
(* JavaScript values: every option, manifest field and environment value   *)
(* is a tagged record, so that `||`, `??`, `== null`, Array.isArray and    *)
(* typeof are decided on the tag as JavaScript decides them.               *)
(***************************************************************************)
Undef == [t |-> "undefined"]
JBool(b) == [t |-> "boolean", b |-> b]
JStr(s) == [t |-> "string", s |-> s]
JArr(a) == [t |-> "array", a |-> a]
JObj(o) == [t |-> "object", o |-> o]
JFn(r) == [t |-> "function", r |-> r]

\* v == null
IsNullish(v) == v.t = "undefined"

\* Array.isArray(v)
IsArray(v) == v.t = "array"

\* ToBoolean(v): undefined, false and '' are falsy; arrays, objects and
\* functions are truthy, the empty array included
Truthy(v) ==
    CASE v.t = "undefined" -> FALSE
      [] v.t = "boolean" -> v.b
      [] v.t = "string" -> v.s # <<>>
      [] OTHER -> TRUE

\* a || b
Or(a, b) == IF Truthy(a) THEN a ELSE b

\* a ?? b
Coalesce(a, b) == IF IsNullish(a) THEN b ELSE a

\* obj.key of an object value, undefined when the key is absent
Get(obj, key) == IF key \in DOMAIN obj.o THEN obj.o[key] ELSE Undef

\* the empty object {}
EmptyObj == JObj([k \in {} |-> Undef])

VARIABLES
    \* ---- workspace discovery (module scope, lines 5-15)
    manifests,      \* the two manifest files on disk: Undef or an object
    dpc,            \* the next module-level statement to run
    pkg,            \* const pkg (line 5)
    lernaConfig,    \* const lernaConfig (line 8)
    pkgsPath,       \* const pkgsPath (line 11)
    isMonorepo,     \* export const isMonorepo (line 13)
    monorepoPkgs,   \* export const monorepoPkgs (line 15)
    \* ---- CLI entry point (lines 95-146)
    envDev,         \* __DEV__
    envPort,        \* process.env.PORT
    cliOptions,     \* const options (line 95)
    port,           \* const port (line 110)
    cpc,            \* where the CLI process is
    listening,      \* the ports devServer.listen was called with
    runCalls,       \* the number of compiler.run calls
    isFirstCompile, \* let isFirstCompile (line 115)
    doneEvents,     \* the number of compiler `done` events so far
    opened,         \* the ports openBrowser was called with
    cbError,        \* the error the run callback received
    cbStats,        \* the stats the run callback received
    printed,        \* the number of console.error calls
    exitCode,       \* process.exitCode
    exitWrites,     \* the number of writes to process.exitCode
    \* ---- config and the default export (lines 334-595)
    nodeEnv,        \* process.env.NODE_ENV
    fsys,           \* the directories on disk and what they hold
    options,        \* the options the default export is called with
    xpc,            \* where the default export is
    call,           \* which call of config is running (1 or 2)
    callOptions,    \* the options of the running call of config
    pkgs,           \* let pkgs (line 353)
    idx,            \* the position of flatMap in pkgs
    globals,        \* the object getGlobals returned, per call of config
    configs,        \* the records flatMap has collected so far
    returned,       \* what each finished call of config returned
    assertFailed,   \* the number of failed console.assert calls
    exported        \* what the default export returned

discVars == <<manifests, dpc, pkg, lernaConfig, pkgsPath,
              isMonorepo, monorepoPkgs>>
cliVars == <<envDev, envPort, cliOptions, port, cpc, listening, runCalls,
             isFirstCompile, doneEvents, opened, cbError, cbStats, printed,
             exitCode, exitWrites>>
cfgVars == <<nodeEnv, fsys, options, xpc, call, callOptions, pkgs, idx,
             globals, configs, returned, assertFailed, exported>>
vars == <<discVars, cliVars, cfgVars>>

(***************************************************************************)
(* The filesystem, and the helpers of @pkgr/utils that probe it            *)
(* (tryFile, tryExtensions, tryGlob, tryRequirePkg).                       *)
(***************************************************************************)

\* the directories of the model: the working directory and two packages
DirA == CWD \o <<"/", "p", "/", "a">>
DirB == CWD \o <<"/", "p", "/", "b">>
DirP == CWD \o <<"/", "p">>
Dirs == <<CWD, DirA, DirB>>

INDEX_TS == INDEX \o <<".", "t", "s">>
INDEX_JS == INDEX \o <<".", "j", "s">>

\* a directory that does not exist
Absent == [exists |-> FALSE]

\* an existing directory: its files (relative paths, in directory order) and
\* its package.json (Undef when it has none)
Layout(files, manifest) ==
    [exists |-> TRUE, files |-> files, manifest |-> manifest]

NoFs == [d \in Range(Dirs) |-> Absent]

\* the paths that exist under directory d, the directory first
PathsOf(fs, d) ==
    IF ~fs[d].exists THEN <<>>
    ELSE <<d>>
         \o (IF fs[d].manifest = Undef THEN <<>>
             ELSE <<d \o SLASH \o PACKAGE_JSON>>)
         \o (IF \E i \in 1..Len(fs[d].files) : StartsWith(fs[d].files[i], SRC \o SLASH)
             THEN <<d \o SLASH \o SRC>> ELSE <<>>)
         \o [i \in 1..Len(fs[d].files) |-> d \o SLASH \o fs[d].files[i]]

\* every path that exists, in the order a directory walk lists them
ExistingPaths(fs) ==
    PathsOf(fs, CWD)
    \o (IF fs[DirA].exists \/ fs[DirB].exists THEN <<DirP>> ELSE <<>>)
    \o PathsOf(fs, DirA) \o PathsOf(fs, DirB)

\* fs.existsSync(p) / tryFile(p, true)
Exists(fs, p) == Includes(ExistingPaths(fs), p)

\* is-glob: the pattern holds a glob character
GlobChars == {"*", "?", "[", "{", "!"}
isGlob(pattern) == \E i \in 1..Len(pattern) : pattern[i] \in GlobChars

\* a path's segments match a pattern's, "*" matching any one segment
SegsMatch(patSegs, segs) ==
    /\ Len(patSegs) = Len(segs)
    /\ \A i \in 1..Len(segs) : patSegs[i] = <<"*">> \/ patSegs[i] = segs[i]

\* the existing paths under baseDir that a glob pattern matches
GlobMatches(fs, pattern, baseDir) ==
    LET under(p) == StartsWith(p, baseDir \o SLASH)
        rel(p) == SubSeq(p, Len(baseDir) + 2, Len(p))
        hit(p) == under(p) /\ SegsMatch(Split(pattern), Split(rel(p)))
    IN  SelectSeq(ExistingPaths(fs), hit)

\* tryGlob(paths, baseDir) of @pkgr/utils: the absolute paths each entry
\* expands to, in entry order; a plain path expands to itself when it exists
tryGlobOn(fs, paths, baseDir) ==
    Flatten([i \in 1..Len(paths) |->
        IF isGlob(paths[i]) THEN GlobMatches(fs, paths[i], baseDir)
        ELSE IF Exists(fs, Resolve(baseDir, paths[i]))
             THEN <<Resolve(baseDir, paths[i])>>
             ELSE <<>>])

\* the extensions tryExtensions probes, in order
EXTENSIONS == << <<".", "t", "s">>, <<".", "t", "s", "x">>, <<".", "j", "s">> >>

\* tryExtensions(filepath) of @pkgr/utils: filepath with the first extension
\* (or none) that exists on disk, '' when none does
tryExtensionsOn(fs, filepath) ==
    LET exts == EXTENSIONS \o << <<>> >>
        found == { i \in 1..Len(exts) : Exists(fs, filepath \o exts[i]) }
    IN  IF found = {} THEN <<>>
        ELSE filepath \o exts[CHOOSE i \in found : \A j \in found : i <= j]

\* the filesystems workspace discovery is run on
DiscoveryFs ==
    { [d \in Range(Dirs) |->
         IF d = CWD THEN Layout(<<>>, Undef)
         ELSE IF d = DirA THEN a ELSE b] :
        a \in { Absent, Layout(<<>>, Undef) },
        b \in { Absent, Layout(<<>>, Undef) } }

\* the discovery module before it is loaded
DiscIdle ==
    /\ manifests = [f \in {"package.json", "lerna.json"} |-> Undef]
    /\ dpc = "idle"
    /\ pkg = Undef
    /\ lernaConfig = Undef
    /\ pkgsPath = Undef
    /\ isMonorepo = FALSE
    /\ monorepoPkgs = <<>>

\* the CLI process when it is not run
CliIdle ==
    /\ envDev = FALSE
    /\ envPort = Undef
    /\ cliOptions = EmptyObj
    /\ port = 0
    /\ cpc = "idle"
    /\ listening = <<>>
    /\ runCalls = 0
    /\ isFirstCompile = FALSE
    /\ doneEvents = 0
    /\ opened = <<>>
    /\ cbError = Undef
    /\ cbStats = Undef
    /\ printed = 0
    /\ exitCode = Undef
    /\ exitWrites = 0

\* the assembler when it is not called, on one of the filesystems fss
CfgIdleOn(fss) ==
    /\ nodeEnv = Undef
    /\ fsys \in fss
    /\ options = EmptyObj
    /\ xpc = "idle"
    /\ call = 0
    /\ callOptions = EmptyObj
    /\ pkgs = <<>>
    /\ idx = 0
    /\ globals = <<>>
    /\ configs = <<>>
    /\ returned = <<>>
    /\ assertFailed = 0
    /\ exported = <<>>

(***************************************************************************)
(* Workspace discovery: src/packages/utils/src/monorepo.ts lines 5-15.     *)
(***************************************************************************)

\* the workspace patterns the manifests of the model declare: a glob and a
\* plain directory path
PatP == <<"p", "/", "*">>
PatQ == <<"p", "/", "a">>

\* the values a manifest field takes: absent, an empty array, a non-array
\* value (falsy '' or a truthy object) and non-empty pattern arrays
FieldValues ==
    { Undef, JArr(<<>>), JStr(<<>>), EmptyObj,
      JArr(<<PatP>>), JArr(<<PatQ>>), JArr(<<PatQ, PatP>>) }

\* a manifest file: absent (Undef), or an object with or without the field
ManifestValues(field) ==
    {Undef} \cup { JObj([k \in {field} |-> v]) : v \in FieldValues \ {Undef} }
            \cup { EmptyObj }

\* tryGlob on the filesystem of the state
tryGlob(paths, baseDir) == tryGlobOn(fsys, paths, baseDir)

\* tryRequirePkg(path) of a root manifest: the loaded object, undefined when
\* the file is absent
tryRequirePkg(file) == manifests[file]

InitDiscovery ==
    /\ manifests \in [ {"package.json", "lerna.json"} ->
                         ManifestValues("workspaces") \cup ManifestValues("packages") ]
    /\ manifests["package.json"] \in ManifestValues("workspaces")
    /\ manifests["lerna.json"] \in ManifestValues("packages")
    /\ fsys \in DiscoveryFs
    /\ dpc = "pkg"
    /\ pkg = Undef
    /\ lernaConfig = Undef
    /\ pkgsPath = Undef
    /\ isMonorepo = FALSE
    /\ monorepoPkgs = <<>>

\* lines 5-6: const pkg = tryRequirePkg(path.resolve('package.json')) || {}
LoadPkg ==
    /\ dpc = "pkg"
    /\ pkg' = Or(tryRequirePkg("package.json"), EmptyObj)
    /\ dpc' = "lernaConfig"
    /\ UNCHANGED <<manifests, lernaConfig, pkgsPath, isMonorepo,
                   monorepoPkgs, cliVars, cfgVars>>

\* lines 8-9: const lernaConfig = tryRequirePkg(path.resolve('lerna.json')) || {}
LoadLernaConfig ==
    /\ dpc = "lernaConfig"
    /\ lernaConfig' = Or(tryRequirePkg("lerna.json"), EmptyObj)
    /\ dpc' = "pkgsPath"
    /\ UNCHANGED <<manifests, pkg, pkgsPath, isMonorepo,
                   monorepoPkgs, cliVars, cfgVars>>

\* line 11: lernaConfig.packages || pkg.workspaces || []
PkgsPathOf(lerna, p) ==
    Or(Or(Get(lerna, "packages"), Get(p, "workspaces")), JArr(<<>>))

SetPkgsPath ==
    /\ dpc = "pkgsPath"
    /\ pkgsPath' = PkgsPathOf(lernaConfig, pkg)
    /\ dpc' = "isMonorepo"
    /\ UNCHANGED <<manifests, pkg, lernaConfig, isMonorepo,
                   monorepoPkgs, cliVars, cfgVars>>

\* line 13: Array.isArray(pkgsPath) && pkgsPath.length > 0
IsMonorepoOf(paths) == IsArray(paths) /\ Len(paths.a) > 0

SetIsMonorepo ==
    /\ dpc = "isMonorepo"
    /\ isMonorepo' = IsMonorepoOf(pkgsPath)
    /\ dpc' = "monorepoPkgs"
    /\ UNCHANGED <<manifests, pkg, lernaConfig, pkgsPath,
                   monorepoPkgs, cliVars, cfgVars>>

\* line 15: isMonorepo ? tryGlob(pkgsPath) : []
SetMonorepoPkgs ==
    /\ dpc = "monorepoPkgs"
    /\ monorepoPkgs' = IF isMonorepo THEN tryGlob(pkgsPath.a, CWD) ELSE <<>>
    /\ dpc' = "loaded"
    /\ UNCHANGED <<manifests, pkg, lernaConfig, pkgsPath,
                   isMonorepo, cliVars, cfgVars>>

NextDiscovery ==
    \/ LoadPkg
    \/ LoadLernaConfig
    \/ SetPkgsPath
    \/ SetIsMonorepo
    \/ SetMonorepoPkgs

InitModuleLoad == InitDiscovery /\ CliIdle /\ CfgIdleOn(DiscoveryFs)

SpecDiscovery == InitModuleLoad /\ [][NextDiscovery]_vars

\* a manifest declares patterns: its field is a non-empty array
Declares(manifest, field) ==
    /\ manifest.t = "object"
    /\ IsArray(Get(manifest, field))
    /\ Len(Get(manifest, field).a) > 0

\* C3: once the module is loaded, if lerna.json or package.json declares a
\* non-empty pattern array then isMonorepo is true and monorepoPkgs is the
\* glob expansion of the declared patterns (lerna.json's when both declare
\* some); otherwise isMonorepo is false and monorepoPkgs is empty.
C3_Discovery ==
    dpc = "loaded" =>
        LET lernaDeclares == Declares(manifests["lerna.json"], "packages")
            pkgDeclares == Declares(manifests["package.json"], "workspaces")
        IN  IF lernaDeclares
            THEN /\ isMonorepo
                 /\ monorepoPkgs =
                      tryGlob(Get(manifests["lerna.json"], "packages").a, CWD)
            ELSE IF pkgDeclares
            THEN /\ isMonorepo
                 /\ monorepoPkgs =
                      tryGlob(Get(manifests["package.json"], "workspaces").a, CWD)
            ELSE /\ ~isMonorepo
                 /\ monorepoPkgs = <<>>

(***************************************************************************)
(* The CLI entry point: src/packages/utils/src/monorepo.ts lines 95-146.   *)
(***************************************************************************)

\* the number of compiler `done` events a watch session of the model sees
MaxDone == 3

\* const DEFAULT_PROT = 8080 (line 109)
DEFAULT_PROT == 8080

NaN == [nan |-> TRUE]
Num(n) == [nan |-> FALSE, n |-> n]

DigitValue(c) ==
    CASE c = "0" -> 0 [] c = "1" -> 1 [] c = "2" -> 2 [] c = "3" -> 3
      [] c = "4" -> 4 [] c = "5" -> 5 [] c = "6" -> 6 [] c = "7" -> 7
      [] c = "8" -> 8 [] c = "9" -> 9

RECURSIVE ParseDigits(_, _)
ParseDigits(s, acc) ==
    IF s = <<>> THEN acc
    ELSE ParseDigits(Tail(s), 10 * acc + DigitValue(Head(s)))

\* Number(v) of undefined or of a string: NaN for undefined and for a string
\* that is no numeral, 0 for ''
Number(v) ==
    CASE v.t = "undefined" -> NaN
      [] v.t = "string" ->
           IF \A i \in 1..Len(v.s) : v.s[i] \in Digits
           THEN Num(ParseDigits(v.s, 0))
           ELSE NaN

\* line 110: Number(process.env.PORT) || DEFAULT_PROT (NaN and 0 are falsy)
PortOf(env) ==
    LET n == Number(env) IN
    IF n.nan \/ n.n = 0 THEN DEFAULT_PROT ELSE n.n

\* the values commander gives --prod: unset, the bare flag, or its argument
CliProdValues ==
    { Undef, JBool(TRUE), JBool(FALSE), JStr(<<>>),
      JStr(<<"f", "a", "l", "s", "e">>) }

CliPortValues == { Undef, JStr(<<"3", "0", "0", "0">>), JStr(<<"0">>),
                   JStr(<<"a", "b", "c">>) }

\* what compiler.run hands its callback: an error or none, and stats that
\* are absent, clean, or report errors
RunErrors == { Undef, JStr(<<"E">>) }
RunStats == { Undef, JObj([k \in {"hasErrors"} |-> JBool(FALSE)]),
              JObj([k \in {"hasErrors"} |-> JBool(TRUE)]) }

InitCli ==
    /\ envDev \in BOOLEAN
    /\ envPort \in CliPortValues
    /\ cliOptions \in { JObj([k \in {"prod"} |-> v]) : v \in CliProdValues }
    /\ port = 0
    /\ cpc = "start"
    /\ listening = <<>>
    /\ runCalls = 0
    /\ isFirstCompile = FALSE
    /\ doneEvents = 0
    /\ opened = <<>>
    /\ cbError = Undef
    /\ cbStats = Undef
    /\ printed = 0
    /\ exitCode = Undef
    /\ exitWrites = 0

\* line 134: __DEV__ && !options.prod
WatchMode(dev, opts) == dev /\ ~Truthy(Get(opts, "prod"))

\* lines 109-146, the module body: compute the port, then start the watcher
\* (startWatcher, lines 112-123: listen, isFirstCompile = true, tap `done`)
\* or the one-shot compiler.run
CliMain ==
    /\ cpc = "start"
    /\ port' = PortOf(envPort)
    /\ IF WatchMode(envDev, cliOptions)
       THEN /\ listening' = Append(listening, port')
            /\ isFirstCompile' = TRUE
            /\ cpc' = "watching"
            /\ UNCHANGED runCalls
       ELSE /\ runCalls' = runCalls + 1
            /\ cpc' = "running"
            /\ UNCHANGED <<listening, isFirstCompile>>
    /\ UNCHANGED <<envDev, envPort, cliOptions, doneEvents, opened, cbError,
                   cbStats, printed, exitCode, exitWrites, discVars, cfgVars>>

\* the `done` hook without isFirstCompile = false
CompilerDoneNeverCleared ==
    /\ cpc = "watching"
    /\ doneEvents < MaxDone
    /\ doneEvents' = doneEvents + 1
    /\ IF ~isFirstCompile
       THEN UNCHANGED opened
       ELSE opened' = Append(opened, port)
    /\ UNCHANGED <<envDev, envPort, cliOptions, port, cpc, listening, runCalls,
                   isFirstCompile, cbError, cbStats, printed, exitCode,
                   exitWrites, discVars, cfgVars>>

\* lines 116-122: the `done` hook of the watcher
CompilerDone ==
    /\ cpc = "watching"
    /\ doneEvents < MaxDone
    /\ doneEvents' = doneEvents + 1
    /\ IF ~isFirstCompile
       THEN UNCHANGED <<isFirstCompile, opened>>
       ELSE /\ isFirstCompile' = FALSE
            /\ opened' = Append(opened, port)
    /\ UNCHANGED <<envDev, envPort, cliOptions, port, cpc, listening, runCalls,
                   cbError, cbStats, printed, exitCode, exitWrites, discVars,
                   cfgVars>>

\* RunFailed without the stats check: only an error argument is a failure
RunFailedErrorOnly(error, stats) == Truthy(error)

\* lines 137-145 with handlerError (lines 129-132): whether the callback
\* reports a failure
RunFailed(error, stats) ==
    \/ Truthy(error)
    \/ (~IsNullish(stats) /\ Truthy(Get(stats, "hasErrors")))

\* lines 137-145: the callback of compiler.run
RunCallback ==
    /\ cpc = "running"
    /\ \E error \in RunErrors, stats \in RunStats :
         /\ cbError' = error
         /\ cbStats' = stats
         /\ IF RunFailed(error, stats)
            THEN /\ printed' = printed + 1
                 /\ exitCode' = Num(1)
                 /\ exitWrites' = exitWrites + 1
            ELSE UNCHANGED <<printed, exitCode, exitWrites>>
    /\ cpc' = "ran"
    /\ UNCHANGED <<envDev, envPort, cliOptions, port, listening, runCalls,
                   isFirstCompile, doneEvents, opened, discVars, cfgVars>>

NextCli ==
    \/ CliMain
    \/ CompilerDone
    \/ RunCallback

InitCliProcess == DiscIdle /\ InitCli /\ CfgIdleOn({NoFs})

SpecCli == InitCliProcess /\ [][NextCli]_vars

\* C2: the CLI starts exactly one of the watcher (when __DEV__ holds and
\* options.prod is falsy) and the one-shot run, never both; after the run's
\* callback the error was printed and process.exitCode set to 1 if and only
\* if the callback got an error or stats with errors, and otherwise
\* process.exitCode was never written.
C2_OneModeAndExitStatus ==
    /\ Len(listening) + runCalls <= 1
    /\ cpc # "start" =>
         /\ Len(listening) + runCalls = 1
         /\ (Len(listening) = 1) <=>
              (envDev /\ ~Truthy(Get(cliOptions, "prod")))
    /\ cpc = "ran" =>
         LET failed == \/ cbError # Undef
                       \/ (cbStats # Undef /\
                           cbStats.o["hasErrors"] = JBool(TRUE))
         IN  /\ failed => (printed = 1 /\ exitCode = Num(1) /\ exitWrites = 1)
             /\ ~failed => (printed = 0 /\ exitCode = Undef /\ exitWrites = 0)
    /\ cpc # "ran" => (printed = 0 /\ exitWrites = 0)

\* a one-shot run whose stats reported errors, without an error argument
C2_Witness ==
    /\ cpc = "ran"
    /\ cbError = Undef
    /\ cbStats # Undef
    /\ cbStats.o["hasErrors"] = JBool(TRUE)
    /\ exitCode = Num(1)

\* C9: in watch mode the browser is opened on the first `done` event and on
\* no later one, and never before the first compile is done.
C9_BrowserOpenedOnce ==
    /\ Len(opened) = (IF doneEvents >= 1 THEN 1 ELSE 0)
    /\ \A i \in 1..Len(opened) : opened[i] = port
    /\ cpc # "watching" => opened = <<>>

\* a watch session that has recompiled after the browser was opened
C9_Witness ==
    /\ cpc = "watching"
    /\ doneEvents >= 2
    /\ Len(opened) = 1

(***************************************************************************)
(* The configuration assembler `config` and the default export:            *)
(* src/packages/utils/src/monorepo.ts lines 258-595.  The alias, copy,     *)
(* vue, json, url and unassert plugins take no part in what is stated      *)
(* below and are left out of the records.                                  *)
(***************************************************************************)

\* an object whose keys are enumerated (Object.keys, Object.entries): the
\* list of its <<key, value>> entries, in insertion order
JMap(e) == [t |-> "object", e |-> e]

\* Object.keys(m)
Keys(e) == [i \in 1..Len(e) |-> e[i][1]]

HasKey(e, k) == \E i \in 1..Len(e) : e[i][1] = k

\* m[k] of a map that has k
Lookup(e, k) == e[CHOOSE i \in 1..Len(e) : e[i][1] = k][2]

\* m[k] = v: replaces the value in place, or appends the new key
Assign(e, k, v) ==
    IF HasKey(e, k)
    THEN [i \in 1..Len(e) |-> IF e[i][1] = k THEN <<k, v>> ELSE e[i]]
    ELSE Append(e, <<k, v>>)

\* options.key with its destructuring default (line 334-350): the default is
\* taken when the option is undefined
Opt(opts, key, default) ==
    IF IsNullish(Get(opts, key)) THEN default ELSE Get(opts, key)

\* an object with one more key, or one key replaced ({ ...obj, key: v })
With(obj, key, v) ==
    JObj([k \in DOMAIN obj.o \cup {key} |-> IF k = key THEN v ELSE obj.o[k]])

\* __DEV__, __PROD__ and PROD of @pkgr/utils
DEV == <<"d","e","v","e","l","o","p","m","e","n","t">>
PROD == <<"p","r","o","d","u","c","t","i","o","n">>
EnvDev(env) == env = JStr(DEV)
EnvProd(env) == env = JStr(PROD)

\* line 258
DEFAULT_FORMATS == <<CJS, ES2015, ESM>>

\* builtin-modules: the names of Node's builtin modules
builtinModules == << <<"f", "s">> >>

\* arrayify(x) of @pkgr/utils: an array as it is, a nullish value as [],
\* anything else as [x]
arrayify(v) ==
    CASE v.t = "array" -> v.a
      [] v.t = "undefined" -> <<>>
      [] v.t = "string" -> <<v.s>>

\* upperCamelCase(normalizePkg(name)) of @pkgr/umd-globals: the global name
\* derived from a package name
DerivedGlobal(name) == [from |-> name, by |-> "derived"]

\* the global name a user or the defaults of @pkgr/umd-globals give
GivenGlobal(value, by) == [from |-> value, by |-> by]

\* the default globals of @pkgr/umd-globals
DEFAULT_GLOBALS == << << <<"j">>, GivenGlobal(<<"J">>, "default") >> >>

RECURSIVE AssignAll(_, _)
AssignAll(target, e) ==
    IF e = <<>> THEN target
    ELSE AssignAll(Assign(target, e[1][1], e[1][2]), Tail(e))

\* getGlobals({ globals }) of @pkgr/umd-globals: a new object holding the
\* default globals and, over them, the user's
getGlobals(umdGlobals) ==
    AssignAll(DEFAULT_GLOBALS,
              IF IsNullish(umdGlobals) THEN <<>>
              ELSE [i \in 1..Len(umdGlobals.e) |->
                      <<umdGlobals.e[i][1],
                        GivenGlobal(umdGlobals.e[i][2], "user")>>])

\* line 364: pkg.replace(/[/\\]package\.json$/, '')
StripPackageJson(p) ==
    IF EndsWith(p, SLASH \o PACKAGE_JSON) \/ EndsWith(p, <<"\\">> \o PACKAGE_JSON)
    THEN SubSeq(p, 1, Len(p) - Len(PACKAGE_JSON) - 1)
    ELSE p

\* lines 358-360: the package.json pattern of an entry of options.monorepo
PackageJsonPattern(p) ==
    IF EndsWith(p, SLASH \o PACKAGE_JSON) THEN p ELSE p \o SLASH \o PACKAGE_JSON

\* ResolvePkgs falling back to the working directory whenever the list is
\* empty, whatever options.monorepo is
ResolvePkgsAlwaysFallback(fs, opts, discovered) ==
    LET monorepo == Get(opts, "monorepo")
        found ==
            IF monorepo = JBool(FALSE) THEN <<CWD>>
            ELSE IF IsArray(monorepo)
                 THEN tryGlobOn(fs, Map(monorepo.a, PackageJsonPattern), CWD)
                 ELSE discovered
        stripped == Map(found, StripPackageJson)
    IN  IF Len(stripped) = 0 THEN <<CWD>> ELSE stripped

\* lines 353-368: the package directories of a call of config
ResolvePkgs(fs, opts, discovered) ==
    LET monorepo == Get(opts, "monorepo")
        found ==
            IF monorepo = JBool(FALSE) THEN <<CWD>>
            ELSE IF IsArray(monorepo)
                 THEN tryGlobOn(fs, Map(monorepo.a, PackageJsonPattern), CWD)
                 ELSE discovered
        stripped == Map(found, StripPackageJson)
    IN  IF IsNullish(monorepo) /\ Len(stripped) = 0 THEN <<CWD>> ELSE stripped

\* line 499: /^es(?:\d+|m|next)$/.test(format) && format !== 'es5'
IsEsVersion(format) ==
    /\ Len(format) >= 3
    /\ format[1] = "e"
    /\ format[2] = "s"
    /\ LET rest == SubSeq(format, 3, Len(format)) IN
         \/ \A i \in 1..Len(rest) : rest[i] \in Digits
         \/ rest = <<"m">>
         \/ rest = <<"n", "e", "x", "t">>
    /\ format # ES5

\* lines 417-419: the output directory with its trailing slash
PkgOutputDir(outputDir) ==
    IF outputDir # <<>> /\ ~EndsWith(outputDir, SLASH)
    THEN outputDir \o SLASH
    ELSE outputDir

\* OutputFile without the .min of production files
OutputFileWithoutMin(dir, pkgOutputDir, pkgInput, format, prod) ==
    Resolve(dir,
            pkgOutputDir
            \o Basename(pkgInput, Extname(pkgInput))
            \o (IF format = CJS THEN <<>> ELSE DOT \o format)
            \o DOT
            \o (IF IsEsVersion(format) THEN MJS
                ELSE IF format = CJS THEN CJS ELSE JS))

\* lines 503-511: output.file
OutputFile(dir, pkgOutputDir, pkgInput, format, prod) ==
    Resolve(dir,
            pkgOutputDir
            \o Basename(pkgInput, Extname(pkgInput))
            \o (IF format = CJS THEN <<>> ELSE DOT \o format)
            \o (IF Truthy(prod) THEN MIN ELSE <<>>)
            \o DOT
            \o (IF IsEsVersion(format) THEN MJS
                ELSE IF format = CJS THEN CJS ELSE JS))

\* JSON.stringify of a string and of a boolean
StringifyString(str) == "\"" \o str \o "\""
StringifyBool(b) == IF b THEN "true" ELSE "false"

\* lines 476-479: the reducer of the define entries
RECURSIVE DefineReduce(_, _)
DefineReduce(acc, e) ==
    IF e = <<>> THEN acc
    ELSE DefineReduce(Assign(acc, e[1][1], StringifyString(e[1][2])), Tail(e))

\* DefineValues replacing process.env.NODE_ENV whatever prod is
DefineValuesAlwaysNodeEnv(define, prod, env) ==
    IF ~Truthy(define) THEN Undef
    ELSE JMap(DefineReduce(
           << <<"__DEV__", StringifyBool(~Truthy(prod) /\ EnvDev(env))>>,
              <<"__PROD__", StringifyBool(Truthy(prod) \/ EnvProd(env))>>,
              <<"process.env.NODE_ENV", StringifyString("production")>> >>,
           IF define = JBool(TRUE) THEN <<>> ELSE define.e))

\* lines 470-492: defineValues, undefined unless options.define is truthy
DefineValues(define, prod, env) ==
    IF ~Truthy(define) THEN Undef
    ELSE JMap(DefineReduce(
           IF Truthy(prod)
           THEN << <<"__DEV__", StringifyBool(FALSE)>>,
                   <<"__PROD__", StringifyBool(TRUE)>>,
                   <<"process.env.NODE_ENV", StringifyString("production")>> >>
           ELSE << <<"__DEV__", StringifyBool(EnvDev(env))>>,
                   <<"__PROD__", StringifyBool(EnvProd(env))>> >>,
           IF define = JBool(TRUE) THEN <<>> ELSE define.e))

\* lines 537-559: the options handed to esbuild; the user's esbuild options
\* are spread over define and minify, and under target
EsbuildOptions(esbuildOptions, defineValues, prod, format) ==
    [ define |-> IF "define" \in DOMAIN esbuildOptions.o
                 THEN esbuildOptions.o["define"] ELSE defineValues,
      minify |-> IF "minify" \in DOMAIN esbuildOptions.o
                 THEN esbuildOptions.o["minify"] ELSE prod,
      target |-> IF IsEsVersion(format)
                 THEN (IF format = ESM THEN ES6 ELSE format)
                 ELSE Coalesce(Get(esbuildOptions, "target"), JStr(ES6)).s ]

\* lines 449-456: collectedExternals
CollectedExternals(externals, manifest) ==
    LET node == Get(Opt(manifest, "engines", EmptyObj), "node")
        deps == Keys(Opt(manifest, "dependencies", JMap(<<>>)).e)
        peers == Keys(Opt(manifest, "peerDependencies", JMap(<<>>)).e)
    IN  IF externals.t = "function" THEN <<>>
        ELSE arrayify(externals) \o peers
             \o (IF Truthy(node) THEN deps \o builtinModules ELSE <<>>)

\* lines 458-461: pkgFormats
PkgFormats(formats, manifest) ==
    LET node == Get(Opt(manifest, "engines", EmptyObj), "node") IN
    IF ~IsNullish(formats) /\ Len(formats.a) > 0
    THEN formats.a
    ELSE DEFAULT_FORMATS \o (IF Truthy(node) THEN <<>> ELSE <<UMD>>)

RECURSIVE ReduceGlobals(_, _)
\* lines 462-468: the reducer adds a derived name for every collected
\* external the object has no entry for, to the object it is given
ReduceGlobals(g, collected) ==
    IF collected = <<>> THEN g
    ELSE ReduceGlobals(
           IF HasKey(g, Head(collected)) THEN g
           ELSE Assign(g, Head(collected), DerivedGlobal(Head(collected))),
           Tail(collected))

\* String.prototype.trim
RECURSIVE TrimStart(_)
TrimStart(str) ==
    IF str # <<>> /\ Head(str) = " " THEN TrimStart(Tail(str)) ELSE str
RECURSIVE TrimEnd(_)
TrimEnd(str) ==
    IF str # <<>> /\ str[Len(str)] = " "
    THEN TrimEnd(SubSeq(str, 1, Len(str) - 1)) ELSE str
Trim(str) == TrimEnd(TrimStart(str))

\* line 269: /^\/(.*)\/([gimsuy]*)$/ matches the string
RegExpFlags == {"g", "i", "m", "s", "u", "y"}
IsRegExpLiteral(str) ==
    /\ Len(str) >= 2
    /\ str[1] = "/"
    /\ \E j \in 2..Len(str) :
         /\ str[j] = "/"
         /\ \A k \in (j + 1)..Len(str) : str[k] \in RegExpFlags

\* lines 262-282: tryRegExp(exp) of a string: a RegExp when the trimmed
\* string has the form /source/flags, the trimmed string otherwise (the
\* cache only remembers the answer)
tryRegExp(exp) ==
    LET trimmed == Trim(exp) IN
    [regExp |-> trimmed # <<>> /\ IsRegExpLiteral(trimmed), s |-> trimmed]

\* whether str occurs in id
Contains(id, str) ==
    \E i \in 1..(Len(id) - Len(str) + 1) : SubSeq(id, i, i + Len(str) - 1) = str

\* RegExp.prototype.test for a source without metacharacters: a substring
\* search
RegExpTest(regExp, id) ==
    LET lastSlash == CHOOSE j \in 2..Len(regExp.s) :
                       /\ regExp.s[j] = "/"
                       /\ \A k \in (j + 1)..Len(regExp.s) : regExp.s[k] # "/"
    IN  Contains(id, SubSeq(regExp.s, 2, lastSlash - 1))

\* micromatch.isMatch(id, pattern), "*" matching one path segment
micromatchIsMatch(id, pattern) == SegsMatch(Split(pattern), Split(id))

\* ExternalMatches with a bare prefix test: name-suffix ids match too
ExternalMatchesPrefix(name, id) ==
    IF tryRegExp(name).regExp THEN RegExpTest(tryRegExp(name), id)
    ELSE IF isGlob(name) THEN micromatchIsMatch(id, name)
    ELSE StartsWith(id, name)

\* lines 522-531: one collected external matches the id
ExternalMatches(name, id) ==
    IF tryRegExp(name).regExp THEN RegExpTest(tryRegExp(name), id)
    ELSE IF isGlob(name) THEN micromatchIsMatch(id, name)
    ELSE id = name \/ StartsWith(id, name \o SLASH)

\* lines 518-532: external(id) of a record; a user function answers for
\* itself
External(record, id) ==
    IF record.externals.t = "function" THEN record.externals.r
    ELSE \E i \in 1..Len(record.collectedExternals) :
           ExternalMatches(record.collectedExternals[i], id)

\* tryRequirePkg(path.resolve(pkg, 'package.json')) (lines 425-430): the
\* manifest of the directory, undefined when it has none
PackageManifest(fs, dir) ==
    IF dir \in DOMAIN fs /\ fs[dir].exists THEN fs[dir].manifest ELSE Undef

\* lines 406-423: the input of a package; '' when no file is found
PkgInput(fs, opts, dir) ==
    LET input == Get(opts, "input")
        pkgInput == IF ~Exists(fs, Resolve(dir, SRC)) /\ IsNullish(input)
                    THEN JStr(INDEX) ELSE input
    IN  tryExtensionsOn(fs, Resolve(dir, Coalesce(pkgInput, JStr(SRC_INDEX)).s))

\* Skipped without the exclude option: excluded packages are built too
SkippedIgnoringExclude(fs, opts, dir) ==
    \/ ~StartsWith(PkgInput(fs, opts, dir), dir)
    \/ ~Truthy(PackageManifest(fs, dir))

\* lines 421-438: the package yields no record
Skipped(fs, opts, dir) ==
    LET pkgJson == PackageManifest(fs, dir)
        exclude == Opt(opts, "exclude", JArr(<<>>)).a
    IN  \/ ~StartsWith(PkgInput(fs, opts, dir), dir)
        \/ ~Truthy(pkgJson)
        \/ Includes(exclude, Get(pkgJson, "name").s)
        \/ Includes(tryGlobOn(fs, exclude, Resolve(dir, <<".", ".">>)), dir)

\* line 342: externals = external ?? []
Externals(opts) ==
    Opt(opts, "externals", Coalesce(Get(opts, "external"), JArr(<<>>)))

\* line 350: prod = __PROD__
Prod(opts, env) == Opt(opts, "prod", JBool(EnvProd(env)))

\* line 513: pkgGlobals[name] || upperCamelCase(normalizePkg(name))
OutputName(g, name) ==
    IF HasKey(g, name) /\ Lookup(g, name).from # <<>>
    THEN Lookup(g, name) ELSE DerivedGlobal(name)

\* lines 498-575: the records of one package, one per entry of pkgFormats.
\* `dir` and `requested` record which package and which requested format a
\* record was made for; `globalsOf` is the reference to the shared globals
\* object of the call
PkgRecords(fs, opts, env, callNo, dir, g) ==
    LET pkgJson == PackageManifest(fs, dir)
        pkgInput == PkgInput(fs, opts, dir)
        pkgOutputDir == PkgOutputDir(Opt(opts, "outputDir", JStr(LIB)).s)
        externals == Externals(opts)
        prod == Prod(opts, env)
        pkgFormats == PkgFormats(Get(opts, "formats"), pkgJson)
        defineValues == DefineValues(Get(opts, "define"), prod, env)
    IN  [i \in 1..Len(pkgFormats) |->
          [ call |-> callNo,
            dir |-> dir,
            requested |-> pkgFormats[i],
            input |-> pkgInput,
            file |-> OutputFile(dir, pkgOutputDir, pkgInput, pkgFormats[i], prod),
            format |-> IF IsEsVersion(pkgFormats[i]) THEN ESM ELSE pkgFormats[i],
            name |-> OutputName(g, Get(pkgJson, "name").s),
            globalsOf |-> callNo,
            externals |-> externals,
            collectedExternals |-> CollectedExternals(externals, pkgJson),
            esbuild |-> EsbuildOptions(Opt(opts, "esbuild", EmptyObj),
                                       defineValues, prod, pkgFormats[i]) ]]

\* lines 353-372: a call of config resolves its packages and gets its
\* globals object
ConfigEnter ==
    /\ xpc = "enter"
    /\ pkgs' = ResolvePkgs(fsys, callOptions, monorepoPkgs)
    /\ globals' = Append(globals, getGlobals(Get(callOptions, "globals")))
    /\ configs' = <<>>
    /\ idx' = 1
    /\ xpc' = "flatMap"
    /\ UNCHANGED <<nodeEnv, fsys, options, call, callOptions, returned,
                   assertFailed, exported, discVars, cliVars>>

\* lines 405-576: the flatMap callback for the next package
ProcessPkg ==
    /\ xpc = "flatMap"
    /\ idx <= Len(pkgs)
    /\ LET dir == pkgs[idx] IN
       IF Skipped(fsys, callOptions, dir)
       THEN UNCHANGED <<globals, configs>>
       ELSE LET g == ReduceGlobals(
                       globals[call],
                       CollectedExternals(Externals(callOptions),
                                          PackageManifest(fsys, dir)))
            IN  /\ globals' = [globals EXCEPT ![call] = g]
                /\ configs' = configs \o PkgRecords(fsys, callOptions, nodeEnv,
                                                    call, dir, g)
    /\ idx' = idx + 1
    /\ UNCHANGED <<nodeEnv, fsys, options, xpc, call, callOptions, pkgs,
                   returned, assertFailed, exported, discVars, cliVars>>

\* ConfigReturn whose second call keeps the options' prod
ConfigReturnKeepingProd ==
    /\ xpc = "flatMap"
    /\ idx > Len(pkgs)
    /\ assertFailed' = IF Len(configs) = 0 THEN assertFailed + 1 ELSE assertFailed
    /\ returned' = Append(returned, configs)
    /\ IF call = 1 /\ Truthy(Get(options, "prod"))
       THEN /\ call' = 2
            /\ callOptions' = options
            /\ xpc' = "enter"
       ELSE /\ xpc' = "spread"
            /\ UNCHANGED <<call, callOptions>>
    /\ UNCHANGED <<nodeEnv, fsys, options, pkgs, idx, globals, configs,
                   exported, discVars, cliVars>>

\* lines 578-583 and 587-590: config asserts and returns; the default export
\* then calls config again with prod: false when options.prod is truthy
ConfigReturn ==
    /\ xpc = "flatMap"
    /\ idx > Len(pkgs)
    /\ assertFailed' = IF Len(configs) = 0 THEN assertFailed + 1 ELSE assertFailed
    /\ returned' = Append(returned, configs)
    /\ IF call = 1 /\ Truthy(Get(options, "prod"))
       THEN /\ call' = 2
            /\ callOptions' = With(options, "prod", JBool(FALSE))
            /\ xpc' = "enter"
       ELSE /\ xpc' = "spread"
            /\ UNCHANGED <<call, callOptions>>
    /\ UNCHANGED <<nodeEnv, fsys, options, pkgs, idx, globals, configs,
                   exported, discVars, cliVars>>

\* lines 587-594: the default export returns the lists of its calls, spread
ExportReturn ==
    /\ xpc = "spread"
    /\ exported' = Flatten(returned)
    /\ xpc' = "done"
    /\ UNCHANGED <<nodeEnv, fsys, options, call, callOptions, pkgs, idx,
                   globals, configs, returned, assertFailed, discVars, cliVars>>

NextConfig ==
    \/ ConfigEnter
    \/ ProcessPkg
    \/ ConfigReturn
    \/ ExportReturn

(***************************************************************************)
(* The inputs of the assembler.                                            *)
(***************************************************************************)
StringMapOf(names) == JMap([i \in 1..Len(names) |-> <<names[i], <<"1">>>>])

\* package.json of a browser package: peerDependencies and dependencies
WebManifest(name, peers, deps) ==
    JObj([k \in {"name", "peerDependencies", "dependencies"} |->
           CASE k = "name" -> JStr(name)
             [] k = "peerDependencies" -> StringMapOf(peers)
             [] k = "dependencies" -> StringMapOf(deps)])

\* package.json of a Node package: engines.node and dependencies
NodeManifest(name, deps) ==
    JObj([k \in {"name", "engines", "dependencies"} |->
           CASE k = "name" -> JStr(name)
             [] k = "engines" -> JObj([e \in {"node"} |-> JStr(<<">", "1">>)])
             [] k = "dependencies" -> StringMapOf(deps)])

SrcIndexTs == << SRC \o SLASH \o INDEX_TS >>
RootIndexJs == << INDEX_JS >>

Fs(root, a, b) ==
    [d \in Range(Dirs) |-> IF d = CWD THEN root ELSE IF d = DirA THEN a ELSE b]

\* the options object of a call: every option of the model, undefined when
\* it is not given
Options(monorepo, formats, input, exclude, outputDir, externals, umdGlobals, define, prod, esbuild) ==
    JObj([k \in {"monorepo", "formats", "input", "exclude", "outputDir",
                 "externals", "globals", "define", "prod", "esbuild"} |->
           CASE k = "monorepo" -> monorepo
             [] k = "formats" -> formats
             [] k = "input" -> input
             [] k = "exclude" -> exclude
             [] k = "outputDir" -> outputDir
             [] k = "externals" -> externals
             [] k = "globals" -> umdGlobals
             [] k = "define" -> define
             [] k = "prod" -> prod
             [] k = "esbuild" -> esbuild])

\* the state in which the default export is called: the discovery module is
\* loaded with the workspace patterns `pats`, on filesystem fs
InitExport(fss, patss, envs, optss) ==
    /\ fsys \in fss
    /\ \E pats \in patss :
         /\ manifests = [f \in {"package.json", "lerna.json"} |->
                           IF f = "package.json"
                           THEN JObj([k \in {"workspaces"} |-> JArr(pats)])
                           ELSE Undef]
         /\ pkg = JObj([k \in {"workspaces"} |-> JArr(pats)])
         /\ pkgsPath = JArr(pats)
         /\ isMonorepo = (Len(pats) > 0)
         /\ monorepoPkgs = IF Len(pats) > 0 THEN tryGlobOn(fsys, pats, CWD) ELSE <<>>
    /\ lernaConfig = EmptyObj
    /\ dpc = "loaded"
    /\ nodeEnv \in envs
    /\ options \in optss
    /\ callOptions = options
    /\ xpc = "enter"
    /\ call = 1
    /\ pkgs = <<>>
    /\ idx = 0
    /\ globals = <<>>
    /\ configs = <<>>
    /\ returned = <<>>
    /\ assertFailed = 0
    /\ exported = <<>>

ManifestRoot == WebManifest(<<"r">>, << <<"x">> >>, <<>>)
ManifestA == WebManifest(<<"m">>, << <<"x">> >>, << <<"d">> >>)
ManifestANode == NodeManifest(<<"m">>, << <<"d">> >>)
ManifestB == WebManifest(<<"n">>, << <<"y">> >>, <<>>)

\* process.env.NODE_ENV
NodeEnvs == { Undef, JStr(DEV), JStr(PROD) }

\* the workspace patterns discovery may have been loaded with
DiscoveredPatterns ==
    { <<>>, <<PatP>>, << <<"p", "/", "*", "/">> \o PACKAGE_JSON >> }

(***************************************************************************)
(* Spec: the package list and the records of each package.  The options    *)
(* that select packages and formats vary over a filesystem whose packages  *)
(* may be missing, without package.json, without input, or Node packages.  *)
(***************************************************************************)
PkgsFs ==
    { Fs(root, a, b) :
        root \in { Layout(SrcIndexTs, ManifestRoot), Layout(RootIndexJs, Undef) },
        a \in { Absent, Layout(SrcIndexTs, ManifestA),
                Layout(RootIndexJs, ManifestANode), Layout(<<>>, ManifestA),
                Layout(SrcIndexTs, Undef) },
        b \in { Absent, Layout(SrcIndexTs, ManifestB) } }

MonorepoValues ==
    { Undef, JBool(FALSE), JBool(TRUE), JArr(<<PatP>>),
      JArr(<< <<"p", "/", "z">> >>),
      JArr(<< DirB \o SLASH \o PACKAGE_JSON, PatQ >>) }

FormatsValues ==
    { Undef, JArr(<<>>), JArr(<<ESM, UMD>>), JArr(<<CJS, CJS>>) }

InputValues == { Undef, JStr(<<".", ".", "/", "b", "/">> \o SRC_INDEX) }

ExcludeValues == { Undef, JArr(<< <<"m">> >>), JArr(<< <<"b">> >>) }

PkgsOptions ==
    { Options(monorepo, formats, input, exclude, Undef, Undef, Undef, Undef,
              prod, Undef) :
        monorepo \in MonorepoValues, formats \in FormatsValues,
        input \in InputValues, exclude \in ExcludeValues,
        prod \in { Undef, JBool(TRUE) } }

Init ==
    /\ InitExport(PkgsFs, DiscoveredPatterns, {JStr(DEV)}, PkgsOptions)
    /\ CliIdle

Spec == Init /\ [][NextConfig]_vars

(***************************************************************************)
(* Statements about the package list and the records (Spec).               *)
(***************************************************************************)
RECURSIVE Sum(_)
Sum(ns) == IF ns = <<>> THEN 0 ELSE Head(ns) + Sum(Tail(ns))

\* how many entries of seq satisfy Test
Count(seq, Test(_)) == Cardinality({ i \in 1..Len(seq) : Test(seq[i]) })

\* a call of config has returned and the next has not resolved its packages:
\* pkgs is the package list of the call that returned last
CallReturned == returned # <<>> /\ xpc # "flatMap"
LastReturned == returned[Len(returned)]

\* the package's package.json declares engines.node
IsNodePackage(dir) ==
    /\ fsys[dir].manifest # Undef
    /\ "engines" \in DOMAIN fsys[dir].manifest.o

\* the formats in effect for a package: options.formats when non-empty,
\* otherwise the defaults (with umd unless the package is a Node package)
FormatsInEffect(dir) ==
    LET formats == options.o["formats"] IN
    IF formats # Undef /\ formats.a # <<>> THEN formats.a
    ELSE IF IsNodePackage(dir) THEN <<CJS, ES2015, ESM>>
         ELSE <<CJS, ES2015, ESM, UMD>>

\* the records of a list made for package dir and requested format f
RecordsFor(list, dir, f) ==
    Count(list, LAMBDA r : r.dir = dir /\ r.requested = f)

\* C1 as stated: every package directory of the list and every format in
\* effect for it has exactly one record, there are no other records, and the
\* list length is the sum over the packages of their numbers of formats.
C1_OneRecordPerPair ==
    CallReturned =>
        /\ \A i \in 1..Len(pkgs) :
             \A f \in Range(FormatsInEffect(pkgs[i])) :
               RecordsFor(LastReturned, pkgs[i], f) = 1
        /\ \A k \in 1..Len(LastReturned) :
             /\ Includes(pkgs, LastReturned[k].dir)
             /\ Includes(FormatsInEffect(LastReturned[k].dir),
                         LastReturned[k].requested)
        /\ Len(LastReturned) =
             Sum([i \in 1..Len(pkgs) |-> Len(FormatsInEffect(pkgs[i]))])

\* a package directory config keeps: its input resolves to a path that
\* starts with the directory, its package.json loads, and neither its name
\* nor its path is excluded
Kept(dir) ==
    LET given == options.o["input"]
        base == IF given # Undef THEN given.s
                ELSE IF Exists(fsys, dir \o SLASH \o SRC) THEN SRC_INDEX
                ELSE INDEX
        excluded == IF options.o["exclude"] = Undef THEN <<>>
                    ELSE options.o["exclude"].a
    IN  /\ StartsWith(tryExtensionsOn(fsys, Resolve(dir, base)), dir)
        /\ fsys[dir].manifest # Undef
        /\ ~Includes(excluded, fsys[dir].manifest.o["name"].s)
        /\ ~Includes(tryGlobOn(fsys, excluded, Resolve(dir, <<".", ".">>)), dir)

\* C1 as amended: every kept entry of the package list and every entry of
\* the format list in effect for it has exactly one record, packages that
\* are not kept have none, there are no other records, and the list length
\* is the sum over the kept entries of their numbers of formats.
C1_OneRecordPerKeptPair ==
    CallReturned =>
        /\ \A dir \in Range(pkgs) :
             \A f \in Range(FormatsInEffect(dir)) :
               RecordsFor(LastReturned, dir, f) =
                 IF Kept(dir)
                 THEN Count(pkgs, LAMBDA d : d = dir)
                      * Count(FormatsInEffect(dir), LAMBDA g : g = f)
                 ELSE 0
        /\ \A k \in 1..Len(LastReturned) :
             /\ Includes(pkgs, LastReturned[k].dir)
             /\ Kept(LastReturned[k].dir)
             /\ Includes(FormatsInEffect(LastReturned[k].dir),
                         LastReturned[k].requested)
             /\ StartsWith(LastReturned[k].input, LastReturned[k].dir)
        /\ Len(LastReturned) =
             Sum([i \in 1..Len(pkgs) |->
                    IF Kept(pkgs[i]) THEN Len(FormatsInEffect(pkgs[i])) ELSE 0])

\* a call over two packages, one kept and one skipped, has returned records
C1_Witness ==
    /\ CallReturned
    /\ Len(pkgs) = 2
    /\ Kept(pkgs[1])
    /\ ~Kept(pkgs[2])
    /\ Len(LastReturned) = Len(FormatsInEffect(pkgs[1]))

\* a call of config has resolved its package list
PkgsResolved == globals # <<>>

\* each entry of list is the entry of from without a trailing /package.json
StrippedFrom(list, from) ==
    /\ Len(list) = Len(from)
    /\ \A i \in 1..Len(from) :
         IF EndsWith(from[i], SLASH \o PACKAGE_JSON)
         THEN list[i] \o SLASH \o PACKAGE_JSON = from[i]
         ELSE list[i] = from[i]

\* the cases of the package list that C6 states for an absent or false
\* options.monorepo
FallbackCases ==
    LET monorepo == options.o["monorepo"] IN
    /\ (monorepo = Undef \/ monorepo = JBool(FALSE)) => pkgs # <<>>
    /\ monorepo = JBool(FALSE) => pkgs = <<CWD>>
    /\ (monorepo = Undef /\ monorepoPkgs = <<>>) => pkgs = <<CWD>>
    /\ (monorepo = Undef /\ monorepoPkgs # <<>>) =>
         StrippedFrom(pkgs, monorepoPkgs)

\* an explicit pattern array that matches no package.json
MatchesNothing(monorepo) ==
    /\ monorepo.t = "array"
    /\ tryGlobOn(fsys, Map(monorepo.a, PackageJsonPattern), CWD) = <<>>

\* an empty package list makes config return an empty list
EmptyListReturned ==
    (pkgs = <<>> /\ CallReturned) => LastReturned = <<>>

\* C6 as stated: the package list is never empty when options.monorepo is
\* absent or false; it is [CWD] when it is false and when it is absent and
\* discovery found nothing; it is the discovered list without trailing
\* /package.json when it is absent and discovery found packages; only a
\* pattern array that matches nothing yields an empty list, and config then
\* returns an empty list.
C6_FallbackToCwd ==
    PkgsResolved =>
        /\ FallbackCases
        /\ pkgs = <<>> <=> MatchesNothing(options.o["monorepo"])
        /\ EmptyListReturned

\* C6 as amended: as stated, except that the package list is empty in two
\* cases: a pattern array that matches nothing, and monorepo === true when
\* discovery found no package.
C6_FallbackToCwdUnlessExplicit ==
    PkgsResolved =>
        /\ FallbackCases
        /\ pkgs = <<>> <=>
             \/ MatchesNothing(options.o["monorepo"])
             \/ (options.o["monorepo"] = JBool(TRUE) /\ monorepoPkgs = <<>>)
        /\ EmptyListReturned

\* the default export has returned nothing for a pattern array that matches
\* nothing, without falling back to the working directory
C6_Witness ==
    /\ xpc = "done"
    /\ MatchesNothing(options.o["monorepo"])
    /\ fsys[CWD].manifest # Undef
    /\ pkgs = <<>>
    /\ exported = <<>>
    /\ assertFailed > 0

(***************************************************************************)
(* SpecExternals: externals and UMD globals.  The externals, external and  *)
(* globals options vary over browser and Node packages with different      *)
(* dependencies.                                                           *)
(***************************************************************************)
ExternalsFs ==
    { Fs(Layout(SrcIndexTs, ManifestRoot), a, b) :
        a \in { Layout(SrcIndexTs, ManifestA), Layout(RootIndexJs, ManifestANode) },
        b \in { Absent, Layout(SrcIndexTs, ManifestB) } }

ExternalsValues ==
    { Undef, JStr(<<"e">>), JArr(<< <<"e">>, <<"j">>, <<"x">> >>),
      JArr(<< <<"e", "*">> >>), JFn(TRUE), JFn(FALSE) }

GlobalsValues ==
    { Undef,
      JMap(<< << <<"x">>, <<"X">> >> >>),
      JMap(<< << <<"m">>, <<"M">> >>, << <<"j">>, <<"Q">> >> >>) }

ExternalsOptions ==
    { With(Options(monorepo, formats, Undef, Undef, Undef, externals,
                   umdGlobals, Undef, prod, Undef),
           "external", external) :
        monorepo \in { Undef, JBool(FALSE), JArr(<<PatP>>) },
        formats \in { Undef, JArr(<<UMD>>) },
        externals \in ExternalsValues,
        external \in { Undef, JStr(<<"d">>) },
        umdGlobals \in GlobalsValues,
        prod \in { Undef, JBool(TRUE) } }

InitExternals ==
    /\ InitExport(ExternalsFs, { <<>>, <<PatP>> }, {JStr(DEV)}, ExternalsOptions)
    /\ CliIdle

SpecExternals == InitExternals /\ [][NextConfig]_vars

\* every record made so far
AllRecords ==
    Range(configs) \cup Range(exported)
    \cup UNION { Range(returned[k]) : k \in 1..Len(returned) }

\* the names the externals option gives: options.externals, or
\* options.external when externals is not given; a single name or a list
UserExternals ==
    LET given == IF options.o["externals"] # Undef THEN options.o["externals"]
                 ELSE options.o["external"]
    IN  IF given.t = "string" THEN {given.s}
        ELSE IF given.t = "array" THEN Range(given.a)
        ELSE {}

\* the externals option is no function and its entries are plain names
PlainExternals ==
    LET given == IF options.o["externals"] # Undef THEN options.o["externals"]
                 ELSE options.o["external"]
    IN  /\ given.t # "function"
        /\ \A n \in UserExternals :
             /\ \A i \in 1..Len(n) : n[i] \notin GlobChars
             /\ n[1] # "/"

\* the keys of a dependency map of a package.json, {} when it has none
DeclaredIn(manifest, field) ==
    IF field \in DOMAIN manifest.o
    THEN { manifest.o[field].e[i][1] : i \in 1..Len(manifest.o[field].e) }
    ELSE {}

\* the names C4 says are external for a package
ExpectedExternals(dir) ==
    LET manifest == fsys[dir].manifest IN
    UserExternals
    \cup DeclaredIn(manifest, "peerDependencies")
    \cup (IF "engines" \in DOMAIN manifest.o
          THEN DeclaredIn(manifest, "dependencies") \cup { <<"f", "s">> }
          ELSE {})

\* the module ids external(id) is asked about: every name of the model, its
\* subpaths, and ids that only share a prefix with it
ModelNames ==
    { <<"e">>, <<"j">>, <<"x">>, <<"y">>, <<"d">>, <<"m">>, <<"f", "s">> }
ModuleIds ==
    ModelNames
    \cup { n \o <<"/", "z">> : n \in ModelNames }
    \cup { n \o <<"-", "z">> : n \in ModelNames }
    \cup { n \o <<"z">> : n \in ModelNames }
    \cup { <<"z", "/">> \o n : n \in ModelNames }
    \cup { <<"f">>, <<"z">>, <<"/">> }

\* C4: when the externals option is no function and holds plain names,
\* external(id) of every record is true exactly for the ids that equal, or
\* are a subpath name/... of, a user external, a peer dependency of the
\* package or, for a package with engines.node, one of its dependencies or a
\* Node builtin module.
C4_ExternalsNeverBundled ==
    PlainExternals =>
        \A r \in AllRecords : \A id \in ModuleIds :
            External(r, id) <=>
              \E n \in ExpectedExternals(r.dir) :
                 id = n \/ StartsWith(id, n \o SLASH)

\* a record of a Node package and a record of a browser package with plain
\* user externals: a dependency is external for the first and bundled for
\* the second
C4_Witness ==
    /\ xpc = "done"
    /\ PlainExternals
    /\ UserExternals # {}
    /\ \E r \in Range(exported) :
         /\ "engines" \in DOMAIN fsys[r.dir].manifest.o
         /\ External(r, <<"d", "/", "z">>)
         /\ External(r, <<"f", "s">>)
         /\ External(r, <<"e">>)
         /\ ~External(r, <<"e", "-", "z">>)
    /\ \E r \in Range(exported) :
         /\ "engines" \notin DOMAIN fsys[r.dir].manifest.o
         /\ External(r, <<"y">>)
         /\ ~External(r, <<"f", "s">>)

\* the globals object a record's output.globals refers to
GlobalsOfRecord(r) == globals[r.globalsOf]

\* the globals the user and the defaults give: the user's value for a key
\* the user names, the default's otherwise
GivenGlobalOf(key) ==
    LET user == options.o["globals"] IN
    IF user # Undef /\ \E i \in 1..Len(user.e) : user.e[i][1] = key
    THEN [from |-> user.e[CHOOSE i \in 1..Len(user.e) : user.e[i][1] = key][2],
          by |-> "user"]
    ELSE [from |-> <<"J">>, by |-> "default"]
GivenGlobalKeys ==
    { <<"j">> } \cup
    (IF options.o["globals"] = Undef THEN {}
     ELSE { options.o["globals"].e[i][1] : i \in 1..Len(options.o["globals"].e) })

\* C10: the globals map of the records of a package holds, besides the given
\* (user or default) globals, derived names only for that package's own
\* collected externals, and a given entry is never overwritten by a derived
\* name.
C10_GlobalsPerPackage ==
    \A r \in AllRecords :
        LET g == GlobalsOfRecord(r) IN
        /\ \A i \in 1..Len(g) :
             \/ g[i][1] \in GivenGlobalKeys
             \/ Includes(r.collectedExternals, g[i][1])
        /\ \A k \in GivenGlobalKeys :
             \E i \in 1..Len(g) : g[i] = <<k, GivenGlobalOf(k)>>

(***************************************************************************)
(* SpecOutput: output files, production bundles and define replacements.   *)
(* The formats, outputDir, define, prod and esbuild options vary over one  *)
(* or two packages.                                                        *)
(***************************************************************************)
OutputFs ==
    { Fs(Layout(SrcIndexTs, ManifestRoot), a, b) :
        a \in { Layout(SrcIndexTs, ManifestA), Layout(RootIndexJs, ManifestANode) },
        b \in { Absent, Layout(SrcIndexTs, ManifestB) } }

OutputDirValues ==
    { Undef, JStr(<<>>), JStr(<<"o", "/">>), JStr(<<"/", "o">>),
      JStr(<<".", ".", "/", "o">>) }

DefineOptionValues ==
    { Undef, JBool(FALSE), JBool(TRUE),
      JMap(<< <<"K", "v">> >>),
      JMap(<< <<"__DEV__", "x">> >>),
      JMap(<< <<"process.env.NODE_ENV", "x">> >>) }

EsbuildValues ==
    { Undef,
      JObj([k \in {"minify"} |-> JBool(FALSE)]),
      JObj([k \in {"minify"} |-> JBool(TRUE)]),
      JObj([k \in {"define"} |-> JMap(<< <<"K", "\"w\"">> >>)]),
      JObj([k \in {"target"} |-> JStr(<<"e", "s", "2", "0", "2", "0">>)]) }

OutputOptions ==
    { Options(monorepo, formats, Undef, Undef, outputDir, Undef, Undef,
              define, prod, esbuild) :
        monorepo \in { Undef, JArr(<<PatP>>) },
        formats \in { Undef, JArr(<<CJS, ES5, ESNEXT, IIFE>>) },
        outputDir \in OutputDirValues,
        define \in DefineOptionValues,
        prod \in { Undef, JBool(TRUE), JBool(FALSE) },
        esbuild \in EsbuildValues }

InitOutput ==
    /\ InitExport(OutputFs, { <<>> }, { JStr(DEV), JStr(PROD) }, OutputOptions)
    /\ CliIdle

SpecOutput == InitOutput /\ [][NextConfig]_vars

\* the file name (last path segment) holds ".min."
HasMin(file) == Contains(LastSeg(file), MIN \o DOT)

\* options.prod is set
ProdSet == options.o["prod"] = JBool(TRUE)

\* the records of the two calls pair up: the same packages and formats in
\* the same order, the first call's with .min and the second's without
PairedByMin ==
    /\ Len(returned) = 2
    /\ exported = returned[1] \o returned[2]
    /\ Len(returned[1]) = Len(returned[2])
    /\ \A k \in 1..Len(returned[1]) :
         /\ returned[1][k].dir = returned[2][k].dir
         /\ returned[1][k].requested = returned[2][k].requested
         /\ HasMin(returned[1][k].file)
         /\ ~HasMin(returned[2][k].file)

\* C5 as stated: with options.prod set the default export returns, for
\* every (package, format) pair, a production record (minify on, .min in the
\* file name) and a non-production record (minify off, no .min), all
\* production records first; with options.prod not set it returns the
\* records of a single call of config.
C5_ProdTogether ==
    xpc = "done" =>
        IF ProdSet
        THEN /\ PairedByMin
             /\ \A k \in 1..Len(returned[1]) :
                  /\ returned[1][k].esbuild.minify = JBool(TRUE)
                  /\ returned[2][k].esbuild.minify = JBool(FALSE)
        ELSE /\ Len(returned) = 1
             /\ exported = returned[1]

\* the minify the user's esbuild option sets
UserMinify == options.o["esbuild"].o["minify"]
UserSetsMinify ==
    /\ options.o["esbuild"] # Undef
    /\ "minify" \in DOMAIN options.o["esbuild"].o

\* C5 as amended: as stated, except that minify is the user's own
\* esbuild.minify in both records when the esbuild option sets it.
C5_ProdTogetherUnlessMinifyGiven ==
    xpc = "done" =>
        IF ProdSet
        THEN /\ PairedByMin
             /\ \A k \in 1..Len(returned[1]) :
                  /\ returned[1][k].esbuild.minify =
                       IF UserSetsMinify THEN UserMinify ELSE JBool(TRUE)
                  /\ returned[2][k].esbuild.minify =
                       IF UserSetsMinify THEN UserMinify ELSE JBool(FALSE)
        ELSE /\ Len(returned) = 1
             /\ exported = returned[1]

\* the default export has returned production and plain records of two
\* packages
C5_Witness ==
    /\ xpc = "done"
    /\ ProdSet
    /\ ~UserSetsMinify
    /\ Len(pkgs) = 2
    /\ Len(exported) = 2 * Len(returned[1])
    /\ Len(returned[1]) >= 2
    /\ exported[1].esbuild.minify = JBool(TRUE)
    /\ exported[Len(exported)].esbuild.minify = JBool(FALSE)

\* the extension C7 gives each format of the model
ExtensionOf(format) ==
    CASE format = CJS -> CJS
      [] format \in { ES2015, ESM, ESNEXT } -> MJS
      [] format \in { ES5, UMD, IIFE } -> JS

\* the file name C7 states: base name, the format unless cjs, .min when
\* prod, and the extension
StatedFileName(r) ==
    Basename(r.input, Extname(r.input))
    \o (IF r.requested = CJS THEN <<>> ELSE DOT \o r.requested)
    \o (IF r.call = 1 /\ (ProdSet \/ (options.o["prod"] = Undef /\ nodeEnv = JStr(PROD)))
        THEN MIN ELSE <<>>)
    \o DOT \o ExtensionOf(r.requested)

\* the package directories and the formats of each package are distinct
DistinctPairs ==
    /\ \A i, j \in 1..Len(pkgs) : i # j => pkgs[i] # pkgs[j]
    /\ \A dir \in Range(pkgs) :
         \A i, j \in 1..Len(FormatsInEffect(dir)) :
           i # j => FormatsInEffect(dir)[i] # FormatsInEffect(dir)[j]

NoTwoSameFile ==
    \A i, j \in 1..Len(exported) :
        i # j => exported[i].file # exported[j].file

\* every record's file is named as stated, in the output directory given
NamedAsStated ==
    LET outputDir == IF options.o["outputDir"] = Undef THEN LIB
                     ELSE options.o["outputDir"].s
    IN  \A i \in 1..Len(exported) :
          exported[i].file =
            Resolve(exported[i].dir, outputDir) \o SLASH
            \o StatedFileName(exported[i])

\* C7 as stated: for distinct package directories and pairwise distinct
\* formats no two records of the default export have the same output.file,
\* production and plain records included, and the file is named outputDir +
\* base name + format (unless cjs) + .min (when prod) + extension.
C7_OutputFilesInjective ==
    (xpc = "done" /\ DistinctPairs) => (NoTwoSameFile /\ NamedAsStated)

\* outputDir is relative and has no ".." segment: it stays in the package
OutputDirInPackage ==
    LET outputDir == IF options.o["outputDir"] = Undef THEN LIB
                     ELSE options.o["outputDir"].s
    IN  /\ ~IsAbsolute(outputDir)
        /\ ~Includes(Split(outputDir), <<".", ".">>)

\* C7 as amended: as stated, for an outputDir that is a relative path
\* without ".." segments; the files are always named as stated.
C7_OutputFilesInjectiveInPackage ==
    (xpc = "done" /\ DistinctPairs) =>
        /\ NamedAsStated
        /\ OutputDirInPackage => NoTwoSameFile

\* production and plain records of two packages in distinct files
C7_Witness ==
    /\ xpc = "done"
    /\ DistinctPairs
    /\ OutputDirInPackage
    /\ ProdSet
    /\ Len(pkgs) = 2
    /\ Len(exported) >= 8
    /\ NoTwoSameFile

\* the prod a record's call of config ran with: options.prod, or __PROD__
\* when it is not given, for the first call; false for the second
ProdOfCall(r) ==
    IF r.call = 2 THEN FALSE
    ELSE IF options.o["prod"] # Undef THEN options.o["prod"].b
    ELSE nodeEnv = JStr(PROD)

TableHas(table, key) == \E i \in 1..Len(table.e) : table.e[i][1] = key
TableValue(table, key) ==
    table.e[CHOOSE i \in 1..Len(table.e) : table.e[i][1] = key][2]

DefineEnabled ==
    options.o["define"] # Undef /\ options.o["define"] # JBool(FALSE)

\* the user's define map names the key
UserDefines(key) ==
    /\ options.o["define"].t = "object"
    /\ TableHas(options.o["define"], key)

\* the esbuild option carries a define table of its own
UserEsbuildDefine ==
    /\ options.o["esbuild"] # Undef
    /\ "define" \in DOMAIN options.o["esbuild"].o

====
